---- MODULE Spec2Model ----
(***************************************************************************)
(* Model of the CDR client of go-hsdp-api (src/cdr/client.go): client      *)
(* construction, base URL configuration, request building, request         *)
(* execution with debug capture, response classification and Close.        *)
(*                                                                         *)
(* Strings are sequences of tokens.  A token is a TLA+ string standing for *)
(* a run of bytes: the delimiters "/", ":", "?", "#", the control byte     *)
(* "\n", or a word.  Concatenating the tokens of a sequence gives the Go   *)
(* string, e.g. <<"https", ":", "/", "/", "example.org", "/">> is          *)
(* "https://example.org/".  The empty sequence is the empty string.        *)
(***************************************************************************)
EXTENDS Integers, Sequences, FiniteSets, TLC

VARIABLES
    client,     \* <<>> when no Client exists, else <<c>> with c the Client struct
    sink,       \* the file behind Client.debugFile
    token,      \* what iamClient.Token() returns now
    built,      \* what the last NewCDRRequest call returned
    done,       \* what the last Do call returned and did
    last,       \* the last operation that ran and the error it returned
    code,       \* a status code given to CheckResponse
    verdict,    \* what CheckResponse returned for code
    pc,         \* per goroutine: position inside Do or Close, and whether Do's
                \* local resp is non-nil
    racy        \* what the goroutines did to the sink

vars == <<client, sink, token, built, done, last, code, verdict, pc, racy>>

----------------------------------------------------------------------------
(* Bounds of the model *)

MaxOpts == 2        \* longest option list given to NewCDRRequest
MaxBody == 2        \* longest request body, in bytes
NumThreads == 2     \* goroutines sharing one Client

----------------------------------------------------------------------------
(* Values *)

Nil == <<>>
Some(x) == <<x>>
NoErr == "nil"

\* src/cdr/client.go:23-27
libraryVersion == "0.27.0"
userAgent == "go-hsdp-api/cdr/" \o libraryVersion
APIVersion == "1"

\* the package's sentinel errors, as used at client.go:118 and client.go:236
ErrCDRURLCannotBeEmpty == "ErrCDRURLCannotBeEmpty"
ErrNonHttp20xResponse == "ErrNonHttp20xResponse"

----------------------------------------------------------------------------
(* Strings *)

CTL == "\n"
SchemeWords == {"https", "HTTPS", "example.org", "store", "fhir", "mailto"}
DigitWords == {"8080"}

HasSuffix(s, t) == Len(s) >= Len(t) /\ SubSeq(s, Len(s) - Len(t) + 1, Len(s)) = t
HasPrefix(s, t) == Len(s) >= Len(t) /\ SubSeq(s, 1, Len(t)) = t

\* strings.Index: position of the first tok in s, 0 when there is none
Index(s, tok) ==
    IF \E i \in 1..Len(s) : s[i] = tok
    THEN CHOOSE i \in 1..Len(s) : s[i] = tok /\ \A j \in 1..(i - 1) : s[j] # tok
    ELSE 0

LastIndex(s, tok) ==
    IF \E i \in 1..Len(s) : s[i] = tok
    THEN CHOOSE i \in 1..Len(s) : s[i] = tok /\ \A j \in (i + 1)..Len(s) : s[j] # tok
    ELSE 0

Count(s, tok) == Cardinality({i \in 1..Len(s) : s[i] = tok})

ToLower(tok) == IF tok = "HTTPS" THEN "https" ELSE tok

----------------------------------------------------------------------------
(* net/url.Parse, as called at client.go:126 *)

ParseErr(e) == [err |-> e, url |-> Nil]

\* getScheme: (scheme, rest) or an error
getScheme(raw) ==
    LET stop(i) == ~(raw[i] \in SchemeWords \/ (raw[i] \in DigitWords /\ i > 1))
        hit == {i \in 1..Len(raw) : stop(i)}
    IN  IF hit = {} THEN [err |-> NoErr, scheme |-> <<>>, rest |-> raw]
        ELSE LET i == CHOOSE k \in hit : \A j \in hit : k <= j
             IN  IF raw[i] = ":"
                 THEN IF i = 1
                      THEN [err |-> "missing protocol scheme", scheme |-> <<>>, rest |-> <<>>]
                      ELSE [err |-> NoErr,
                            scheme |-> [k \in 1..(i - 1) |-> ToLower(raw[k])],
                            rest |-> SubSeq(raw, i + 1, Len(raw))]
                 ELSE [err |-> NoErr, scheme |-> <<>>, rest |-> raw]

\* parseHost: a port after the last colon must be digits
validOptionalPort(port) == \A i \in 1..Len(port) : port[i] \in DigitWords

parseAuthorityErr(authority) ==
    LET i == LastIndex(authority, ":")
    IN  IF i # 0 /\ ~validOptionalPort(SubSeq(authority, i + 1, Len(authority)))
        THEN "invalid port after host"
        ELSE NoErr

\* s up to the first tok / after the first tok (all of s / nothing without one)
Before(s, tok) == IF Index(s, tok) = 0 THEN s ELSE SubSeq(s, 1, Index(s, tok) - 1)
After(s, tok) == IF Index(s, tok) = 0 THEN <<>> ELSE SubSeq(s, Index(s, tok) + 1, Len(s))
From(s, tok) == IF Index(s, tok) = 0 THEN <<>> ELSE SubSeq(s, Index(s, tok), Len(s))

\* "//authority/path": the host is validated, the rest is the path
parseAuthority(url, authority, path) ==
    IF parseAuthorityErr(authority) # NoErr
    THEN ParseErr(parseAuthorityErr(authority))
    ELSE [err |-> NoErr, url |-> Some([url EXCEPT !.Host = authority, !.Path = path])]

\* what follows the scheme, the query already split off into url
parseRest(url, rest) ==
    IF ~HasPrefix(rest, <<"/">>) /\ url.Scheme # <<>>
    THEN [err |-> NoErr, url |-> Some([url EXCEPT !.Opaque = rest])]
    ELSE IF ~HasPrefix(rest, <<"/">>) /\ Index(rest, ":") # 0
            /\ (Index(rest, "/") = 0 \/ Index(rest, ":") < Index(rest, "/"))
    THEN ParseErr("first path segment in URL cannot contain colon")
    ELSE IF HasPrefix(rest, <<"/", "/">>)
            /\ (url.Scheme # <<>> \/ ~HasPrefix(rest, <<"/", "/", "/">>))
    THEN parseAuthority(url, Before(SubSeq(rest, 3, Len(rest)), "/"),
                        From(SubSeq(rest, 3, Len(rest)), "/"))
    ELSE [err |-> NoErr, url |-> Some([url EXCEPT !.Path = rest])]

\* the query: a lone trailing "?" forces an empty query, else cut at the first "?"
parseQuery(scheme, rest, frag) ==
    IF HasSuffix(rest, <<"?">>) /\ Count(rest, "?") = 1
    THEN parseRest([Scheme |-> scheme, Opaque |-> <<>>, Host |-> <<>>, Path |-> <<>>,
                    RawQuery |-> <<>>, ForceQuery |-> TRUE, Fragment |-> frag],
                   SubSeq(rest, 1, Len(rest) - 1))
    ELSE parseRest([Scheme |-> scheme, Opaque |-> <<>>, Host |-> <<>>, Path |-> <<>>,
                    RawQuery |-> After(rest, "?"), ForceQuery |-> FALSE,
                    Fragment |-> frag],
                   Before(rest, "?"))

parseScheme(gs, frag) ==
    IF gs.err # NoErr THEN ParseErr(gs.err) ELSE parseQuery(gs.scheme, gs.rest, frag)

\* parse(rawURL, viaRequest = false), the fragment already cut off
parseNoFrag(raw, frag) ==
    IF \E i \in 1..Len(raw) : raw[i] = CTL
    THEN ParseErr("invalid control character in URL")
    ELSE parseScheme(getScheme(raw), frag)

\* url.Parse: cut off "#frag", then parse
Parse(raw) == parseNoFrag(Before(raw, "#"), After(raw, "#"))

----------------------------------------------------------------------------
(* Configuration: Config (client.go:33-41) and newClient (client.go:67-96) *)

ExampleOrg == <<"https", ":", "/", "/", "example.org">>

\* candidate values of Config.FHIRStore and of SetFHIRStoreURL's urlStr
StoreURLs ==
    { <<>>,
      ExampleOrg \o <<"/", "store", "/", "fhir", "/">>,
      ExampleOrg \o <<"/", "store", "/", "fhir">>,
      ExampleOrg \o <<"/", "store", "/", "fhir", "?", "x=1">>,
      ExampleOrg \o <<":", "fhir", "/">>,
      ExampleOrg \o <<"/", "store", CTL, "/">> }

Configs ==
    [ RootOrgID : {<<"org1">>},
      CDRURL    : {<<>>, ExampleOrg},
      FHIRStore : StoreURLs,
      TimeZone  : {"UTC", "Mars/Olympus"},
      DebugLog  : {"", "/tmp/cdr.log", "/nonexistent/cdr.log", "/dev/full"} ]

\* os.OpenFile(path, O_APPEND|O_CREATE|O_WRONLY): which paths open, and which
\* opened files refuse every write
OpenFileOK(path) == path \in {"/tmp/cdr.log", "/dev/full"}
WriteFails(path) == path = "/dev/full"

\* time.LoadLocation inside jsonformat.NewUnmarshaller
LoadLocationOK(tz) == tz # "Mars/Olympus"

NoSink == [open |-> FALSE, full |-> FALSE]

\* client.go:126-127: the parsed URL (nil on error) is stored, the error returned
storeParsed(c, p) == [c |-> [c EXCEPT !.fhirStoreURL = p.url], err |-> p.err]

\* Client.SetFHIRStoreURL: the client after the call and the error returned
SetFHIRStoreURL(c, urlStr) ==
    IF urlStr = <<>>
    THEN [c |-> c, err |-> ErrCDRURLCannotBeEmpty]
    ELSE storeParsed(c, Parse(IF HasSuffix(urlStr, <<"/">>) THEN urlStr
                              ELSE urlStr \o <<"/">>))

\* client.go:68
emptyClient(config) ==
    [fhirStoreURL |-> Nil, RootOrgID |-> config.RootOrgID,
     UserAgent |-> userAgent, debugFile |-> "nil"]

\* client.go:69-72
fhirStoreOf(config) ==
    IF config.FHIRStore = <<>>
    THEN config.CDRURL \o <<"/", "store", "/", "fhir", "/">>
    ELSE config.FHIRStore

\* client.go:76-82: the file opened for Config.DebugLog, if any
openDebugLog(config) ==
    IF config.DebugLog # "" /\ OpenFileOK(config.DebugLog)
    THEN [open |-> TRUE, full |-> WriteFails(config.DebugLog)]
    ELSE NoSink

\* client.go:73-95, given what SetFHIRStoreURL returned and the file opened
finishNewClient(config, set, file) ==
    IF set.err # NoErr
    THEN [client |-> Nil, err |-> set.err, sink |-> NoSink]
    ELSE IF ~LoadLocationOK(config.TimeZone)
    THEN [client |-> Nil, err |-> "unknown time zone", sink |-> file]
    ELSE [client |-> Some([set.c EXCEPT !.debugFile = IF file.open THEN "file" ELSE "nil"]),
          err |-> NoErr, sink |-> file]

\* newClient: the client returned (Nil on error), the error, and the file opened
newClient(config) ==
    finishNewClient(config,
                    SetFHIRStoreURL(emptyClient(config), fhirStoreOf(config)),
                    openDebugLog(config))

\* Client.Close: the client and the file after the call
Close(c, file) ==
    IF c.debugFile # "nil"
    THEN [c |-> [c EXCEPT !.debugFile = "nil"], sink |-> [file EXCEPT !.open = FALSE]]
    ELSE [c |-> c, sink |-> file]

\* Client.GetFHIRStoreURL is not modelled: no claim reads it.

----------------------------------------------------------------------------
(* Request building: Client.NewCDRRequest (client.go:135-176) *)

Methods == {"GET", "DELETE", "POST", "PUT", "PATCH"}
RelPaths == {<<"Patient", "/", "123">>}
Tokens == {"t1", "t2"}
HeaderNames == {"Accept", "Authorization", "Api-Version", "User-Agent"}

\* A body (an io.ReadCloser) is a stream: the data not yet read, whether the
\* stream ends in a read error instead of EOF, and whether it was closed.
Stream(data, fails) == [data |-> data, fails |-> fails, closed |-> FALSE]

\* request bodies: n bytes
BodyOf(n) == [i \in 1..n |-> "b"]
Bodies == {BodyOf(n) : n \in 0..MaxBody}

\* OptionFunc values (client.go:30): the nil function, header and query
\* mutators, and functions that fail
OptNil      == [kind |-> "nil",       name |-> "",              value |-> ""]
OptAccept   == [kind |-> "setHeader", name |-> "Accept",        value |-> "application/fhir+json"]
OptAuth     == [kind |-> "setHeader", name |-> "Authorization", value |-> "Basic abc"]
OptQuery    == [kind |-> "setQuery",  name |-> "",              value |-> "_count=1"]
OptFailA    == [kind |-> "fail",      name |-> "",              value |-> "errA"]
OptFailB    == [kind |-> "fail",      name |-> "",              value |-> "errB"]
OptionFuncs == {OptNil, OptAccept, OptAuth, OptQuery, OptFailA, OptFailB}
OptionLists == UNION {[1..n -> OptionFuncs] : n \in 0..MaxOpts}

\* iamClient.Token() (client.go:169)
CurrentToken(tok) == tok

\* http.Header.Set: replace every value stored under the name
HeaderSet_Add(h, name, value) == [h EXCEPT ![name] = Append(@, value)]
HeaderSet(h, name, value) == [h EXCEPT ![name] = <<value>>]

\* one option function applied to the request: the request after it and its error
RunOption(req, fn) ==
    CASE fn.kind = "setHeader" ->
            [req |-> [req EXCEPT !.Header = HeaderSet(@, fn.name, fn.value)], err |-> NoErr]
      [] fn.kind = "setQuery" ->
            [req |-> [req EXCEPT !.URL.RawQuery = <<fn.value>>], err |-> NoErr]
      [] fn.kind = "fail" ->
            [req |-> req, err |-> fn.value]
      [] OTHER -> [req |-> req, err |-> NoErr]

\* the loop of client.go:150-158 from option i on: the request, the first
\* error, and the positions of the options that were called
RECURSIVE applyFrom_Continue(_, _, _, _)
applyFrom_Continue(req, options, i, ran) ==
    IF i > Len(options) THEN [req |-> req, err |-> NoErr, ran |-> ran]
    ELSE IF options[i].kind = "nil" THEN applyFrom_Continue(req, options, i + 1, ran)
    ELSE LET r == RunOption(req, options[i])
             t == applyFrom_Continue(r.req, options, i + 1, Append(ran, i))
         IN  IF r.err # NoErr THEN [t EXCEPT !.err = r.err] ELSE t

RECURSIVE applyFrom(_, _, _, _)
applyFrom(req, options, i, ran) ==
    IF i > Len(options) THEN [req |-> req, err |-> NoErr, ran |-> ran]
    ELSE IF options[i].kind = "nil" THEN applyFrom(req, options, i + 1, ran)
    ELSE LET r == RunOption(req, options[i])
         IN  IF r.err # NoErr
             THEN [req |-> r.req, err |-> r.err, ran |-> Append(ran, i)]
             ELSE applyFrom(r.req, options, i + 1, Append(ran, i))

\* client.go:160
IsMutating_Any(method) == TRUE
IsMutating(method) == method = "POST" \/ method = "PUT" \/ method = "PATCH"

\* client.go:161-165
attachBody_KeepQuery(req, bodyBytes) ==
    [req EXCEPT !.Body = Some(Stream(bodyBytes, FALSE)),
                !.ContentLength = Len(bodyBytes)]
attachBody(req, bodyBytes) ==
    [req EXCEPT !.URL.RawQuery = <<>>,
                !.Body = Some(Stream(bodyBytes, FALSE)),
                !.ContentLength = Len(bodyBytes)]

\* client.go:168-174
setHeaders(req, c, tok) ==
    LET h1 == HeaderSet(req.Header, "Accept", "*/*")
        h2 == HeaderSet(h1, "Authorization", "Bearer " \o CurrentToken(tok))
        h3 == HeaderSet(h2, "Api-Version", APIVersion)
        h4 == IF c.UserAgent # "" THEN HeaderSet(h3, "User-Agent", c.UserAgent) ELSE h3
    IN  [req EXCEPT !.Header = h4]

NoBuild == [called |-> FALSE, panicked |-> FALSE, req |-> Nil, err |-> NoErr,
            ran |-> <<>>, method |-> "", path |-> <<>>, bodyBytes |-> <<>>,
            options |-> <<>>]

\* client.go:136-148: the request before the options run
newRequest(c, method, path) ==
    [Method |-> method,
     URL |-> [c.fhirStoreURL[1] EXCEPT
                !.Opaque = c.fhirStoreURL[1].Path \o c.RootOrgID \o <<"/">> \o path],
     Host |-> c.fhirStoreURL[1].Host,
     Header |-> [n \in HeaderNames |-> <<>>],
     Body |-> Nil, ContentLength |-> 0]

\* client.go:155-175, given what the option loop returned
afterOptions(call, c, tok, method, bodyBytes, a) ==
    IF a.err # NoErr
    THEN [call EXCEPT !.err = a.err, !.ran = a.ran]
    ELSE [call EXCEPT !.ran = a.ran,
                      !.req = Some(setHeaders(IF IsMutating(method)
                                              THEN attachBody(a.req, bodyBytes)
                                              ELSE a.req, c, tok))]

\* NewCDRRequest: (req, err), whether it panicked, which options it called
NewCDRRequest(c, tok, method, path, bodyBytes, options) ==
    IF c.fhirStoreURL = Nil
    THEN [NoBuild EXCEPT !.called = TRUE, !.method = method, !.path = path,
                         !.bodyBytes = bodyBytes, !.options = options,
                         !.panicked = TRUE]      \* client.go:136 dereferences nil
    ELSE afterOptions([NoBuild EXCEPT !.called = TRUE, !.method = method,
                                      !.path = path, !.bodyBytes = bodyBytes,
                                      !.options = options],
                      c, tok, method, bodyBytes,
                      applyFrom(newRequest(c, method, path), options, 1, <<>>))

----------------------------------------------------------------------------
(* Response classification: CheckResponse (client.go:231-237) *)

CheckResponse_2xx(StatusCode) ==
    IF StatusCode \in 200..299 THEN NoErr ELSE ErrNonHttp20xResponse

CheckResponse(StatusCode) ==
    IF StatusCode \in {200, 201, 202, 204, 304} THEN NoErr ELSE ErrNonHttp20xResponse

----------------------------------------------------------------------------
(* Request execution: Client.Do (client.go:193-228) *)

JSON == "{\"a\":1}"
HTML == "<html>"
ReadError == "unexpected EOF"
BodyStreams == {Stream(d, f) : d \in {<<>>, <<JSON>>, <<HTML>>}, f \in BOOLEAN}

\* Statuses the transport answers with
Statuses == {200, 204, 304, 404, 500}

\* What iamClient.HttpClient().Do(req) returns as (resp, err): an error and no
\* response, a response and no error, or, when a redirect is refused, the last
\* response with its body closed together with an error.  The field resp says
\* whether resp is non-nil.
TransportErr == "dial tcp: connection refused"
RedirectErr == "stopped after 10 redirects"
Failure == [err |-> TransportErr, resp |-> FALSE, StatusCode |-> 0,
            Body |-> Stream(<<>>, FALSE)]
Redirected == [err |-> RedirectErr, resp |-> TRUE, StatusCode |-> 302,
               Body |-> [Stream(<<>>, FALSE) EXCEPT !.closed = TRUE]]
Transports ==
    {Failure, Redirected}
        \cup [err : {NoErr}, resp : {TRUE}, StatusCode : Statuses, Body : BodyStreams]

\* The destination v: absent, an io.Writer, or a pointer to a struct
Destinations == {"nil", "writer", "struct"}

\* reading a stream to its end: what was read, the error, the stream after
ReadAll(b) ==
    [data |-> IF b.closed THEN <<>> ELSE b.data,
     err  |-> IF b.closed THEN "read on closed body"
              ELSE IF b.fails THEN ReadError ELSE NoErr,
     body |-> [b EXCEPT !.data = <<>>]]

\* httputil.DumpResponse(resp, true) (client.go:201): drainBody reads the body
\* to its end, closes it and leaves a copy in its place; when the read fails
\* the drained body stays in place.  The result is the body left in the message.
drainBody(b) ==
    LET r == ReadAll(b)
    IN  IF r.err # NoErr THEN r.body ELSE Stream(r.data, FALSE)

DumpResponse(b) == drainBody(b)

\* httputil.DumpRequest(req, true) (client.go:195): the same for the request
\* body, when there is one
DumpRequest(req) ==
    IF req.Body = Nil THEN req ELSE [req EXCEPT !.Body = Some(drainBody(req.Body[1]))]

\* debugFile.WriteString (client.go:197, 203)
WriteString(file) ==
    IF ~file.open THEN "closed" ELSE IF file.full THEN "failed" ELSE "written"

\* json.NewDecoder(body).Decode(v) (client.go:223): a complete value in the
\* data read so far is decoded before a read error is looked at
Decode(b) ==
    IF b.closed THEN [err |-> "read on closed body", out |-> <<>>]
    ELSE IF b.data = <<>>
    THEN [err |-> IF b.fails THEN ReadError ELSE "EOF", out |-> <<>>]
    ELSE IF Head(b.data) = JSON THEN [err |-> NoErr, out |-> <<JSON>>]
    ELSE [err |-> "invalid character", out |-> <<>>]

\* io.Copy(w, body) (client.go:221)
Copy(b) == LET r == ReadAll(b) IN [err |-> r.err, out |-> r.data]

NoDone == [called |-> FALSE, resp |-> Nil, err |-> NoErr, out |-> <<>>,
           calls |-> 0, wire |-> Nil, captures |-> <<>>,
           transport |-> Failure, v |-> "nil", debug |-> "nil"]

\* client.go:194-198 and 200-204: the results of the writes to the debug file;
\* the response is captured whenever the transport returned one
captures(c, file, tr) ==
    IF c.debugFile = "nil" THEN <<>>
    ELSE IF ~tr.resp THEN <<WriteString(file)>>
    ELSE <<WriteString(file), WriteString(file)>>

\* what the transport reads from the request it is given
onWire(req) ==
    [Method |-> req.Method,
     Body |-> IF req.Body = Nil THEN <<>> ELSE ReadAll(req.Body[1]).data,
     ContentLength |-> req.ContentLength]

\* client.go:218-225: v receives the body
readInto(v, body) == IF v = "writer" THEN Copy(body) ELSE Decode(body)

withResult(call, resp, r) == [call EXCEPT !.resp = resp, !.err = r.err, !.out = r.out]

\* client.go:205-227, given the body the capture left in the response
doReturn(call, tr, v, body) ==
    IF tr.err # NoErr
    THEN [call EXCEPT !.err = tr.err]
    ELSE IF CheckResponse(tr.StatusCode) # NoErr
    THEN [call EXCEPT !.resp = Some([StatusCode |-> tr.StatusCode, Body |-> body]),
                      !.err = CheckResponse(tr.StatusCode)]
    ELSE IF v # "nil"
    THEN withResult(call,
                    Some([StatusCode |-> tr.StatusCode,
                          Body |-> [ReadAll(body).body EXCEPT !.closed = TRUE]]),
                    readInto(v, body))
    ELSE [call EXCEPT !.resp = Some([StatusCode |-> tr.StatusCode, Body |-> body])]

\* Do: (response, err), what v received, what the transport was given and
\* what was appended to the debug file
Do(c, file, req, v, tr) ==
    doReturn([NoDone EXCEPT !.called = TRUE, !.calls = 1,
                            !.captures = captures(c, file, tr),
                            !.wire = Some(onWire(IF c.debugFile # "nil"
                                                 THEN DumpRequest(req) ELSE req)),
                            !.transport = tr, !.v = v, !.debug = c.debugFile],
             tr, v,
             IF c.debugFile # "nil" /\ tr.resp
             THEN DumpResponse(tr.Body) ELSE tr.Body)

----------------------------------------------------------------------------
(* The sequential program: one caller, every call runs to its end *)

Threads == 1..NumThreads
Idle == [t \in Threads |-> [at |-> "idle", resp |-> FALSE]]
NoRace == [closes |-> 0, late |-> FALSE]

Init ==
    /\ client = Nil
    /\ sink = NoSink
    /\ token = "t1"
    /\ built = NoBuild
    /\ done = NoDone
    /\ last = [op |-> "start", err |-> NoErr]
    /\ code = 200
    /\ verdict = "unchecked"
    /\ pc = Idle
    /\ racy = NoRace

\* between two service calls: no request is being handled
AtRest == built = NoBuild /\ done = NoDone

NewClientStep ==
    /\ client = Nil /\ AtRest
    /\ \E config \in Configs : \E r \in {newClient(config)} :
          /\ client' = r.client
          /\ sink' = r.sink
          /\ last' = [op |-> "NewClient", err |-> r.err]
    /\ UNCHANGED <<token, built, done, code, verdict, pc, racy>>

SetFHIRStoreURLStep ==
    /\ client # Nil /\ AtRest
    /\ \E urlStr \in StoreURLs : \E r \in {SetFHIRStoreURL(client[1], urlStr)} :
          /\ client' = Some(r.c)
          /\ last' = [op |-> "SetFHIRStoreURL", err |-> r.err]
    /\ UNCHANGED <<sink, token, built, done, code, verdict, pc, racy>>

CloseStep ==
    /\ client # Nil /\ AtRest
    /\ client' = Some(Close(client[1], sink).c)
    /\ sink' = Close(client[1], sink).sink
    /\ last' = [op |-> "Close", err |-> NoErr]
    /\ UNCHANGED <<token, built, done, code, verdict, pc, racy>>

\* the Token Provider rotates its token
RotateTokenStep ==
    /\ AtRest
    /\ \E t \in Tokens \ {token} : token' = t
    /\ last' = [op |-> "RotateToken", err |-> NoErr]
    /\ UNCHANGED <<client, sink, built, done, code, verdict, pc, racy>>

\* a service module builds a request
NewCDRRequestStep(lists) ==
    /\ client # Nil /\ AtRest
    /\ \E method \in Methods, path \in RelPaths, bodyBytes \in Bodies, options \in lists :
          built' = NewCDRRequest(client[1], token, method, path, bodyBytes, options)
    /\ last' = [op |-> "NewCDRRequest",
                err |-> IF built'.panicked THEN "panic: nil pointer dereference"
                        ELSE built'.err]
    /\ UNCHANGED <<client, sink, token, done, code, verdict, pc, racy>>

\* the service module sends the request it built
DoStep(transports, destinations) ==
    /\ client # Nil /\ built.req # Nil /\ ~done.called
    /\ \E tr \in transports, v \in destinations :
          done' = Do(client[1], sink, built.req[1], v, tr)
    /\ last' = [op |-> "Do", err |-> done'.err]
    /\ UNCHANGED <<client, sink, token, built, code, verdict, pc, racy>>

\* the service call returns to its caller
ReturnStep ==
    /\ built.called
    /\ built' = NoBuild
    /\ done' = NoDone
    /\ last' = [op |-> "return", err |-> NoErr]
    /\ UNCHANGED <<client, sink, token, code, verdict, pc, racy>>

ShortOptionLists == {l \in OptionLists : Len(l) <= 1}

Next ==
    \/ NewClientStep
    \/ SetFHIRStoreURLStep
    \/ CloseStep
    \/ RotateTokenStep
    \/ NewCDRRequestStep(ShortOptionLists)
    \/ DoStep(Transports, Destinations)
    \/ ReturnStep

Spec == Init /\ [][Next]_vars

----------------------------------------------------------------------------
(* Request building on the clients NewClient returns, with every option list *)

PlainTransports ==
    { Failure, Redirected,
      [err |-> NoErr, resp |-> TRUE, StatusCode |-> 200, Body |-> Stream(<<JSON>>, FALSE)],
      [err |-> NoErr, resp |-> TRUE, StatusCode |-> 404, Body |-> Stream(<<JSON>>, FALSE)] }

InitBuild ==
    /\ \E config \in Configs :
          /\ newClient(config).err = NoErr
          /\ client = newClient(config).client
          /\ sink = newClient(config).sink
    /\ token = "t1"
    /\ built = NoBuild
    /\ done = NoDone
    /\ last = [op |-> "NewClient", err |-> NoErr]
    /\ code = 200
    /\ verdict = "unchecked"
    /\ pc = Idle
    /\ racy = NoRace

NextBuild ==
    \/ RotateTokenStep
    \/ NewCDRRequestStep(OptionLists)
    \/ DoStep(PlainTransports, {"nil"})
    \/ ReturnStep

SpecBuild == InitBuild /\ [][NextBuild]_vars

----------------------------------------------------------------------------
(* CheckResponse on every status code *)

StatusCodes == 100..599

InitCheck ==
    /\ client = Nil
    /\ sink = NoSink
    /\ token = "t1"
    /\ built = NoBuild
    /\ done = NoDone
    /\ last = [op |-> "start", err |-> NoErr]
    /\ code \in StatusCodes
    /\ verdict = "unchecked"
    /\ pc = Idle
    /\ racy = NoRace

CheckResponseStep ==
    /\ verdict = "unchecked"
    /\ verdict' = CheckResponse(code)
    /\ last' = [op |-> "CheckResponse", err |-> verdict']
    /\ UNCHANGED <<client, sink, token, built, done, code, pc, racy>>

NextCheck == CheckResponseStep

SpecCheck == InitCheck /\ [][NextCheck]_vars

----------------------------------------------------------------------------
(* One Client shared by goroutines: Close (client.go:99-104) and Do           *)
(* (client.go:193-228) step by step, one step per access to Client.debugFile *)
(* and to the file.  The code takes no lock.                                 *)

InitConc ==
    /\ \E config \in Configs :
          /\ newClient(config).err = NoErr
          /\ newClient(config).sink.open
          /\ client = newClient(config).client
          /\ sink = newClient(config).sink
    /\ token = "t1"
    /\ built = NoBuild
    /\ done = NoDone
    /\ last = [op |-> "NewClient", err |-> NoErr]
    /\ code = 200
    /\ verdict = "unchecked"
    /\ pc = Idle
    /\ racy = NoRace

Goto(t, at) ==
    /\ pc' = [pc EXCEPT ![t].at = at]
    /\ UNCHANGED <<token, built, done, last, code, verdict>>

\* a write through Client.debugFile: late when the field is nil or the file
\* was released
Capture(t, next) ==
    /\ racy' = [racy EXCEPT !.late = @ \/ client[1].debugFile = "nil" \/ ~sink.open]
    /\ Goto(t, next)
    /\ UNCHANGED <<client, sink>>

\* client.go:100
CloseTestAt(t) ==
    /\ pc[t].at = "idle"
    /\ Goto(t, IF client[1].debugFile # "nil" THEN "close101" ELSE "closed")
    /\ UNCHANGED <<client, sink, racy>>

\* client.go:101
CloseFileAt(t) ==
    /\ pc[t].at = "close101"
    /\ sink' = [sink EXCEPT !.open = FALSE]
    /\ racy' = [racy EXCEPT !.closes = @ + 1]
    /\ Goto(t, "close102")
    /\ UNCHANGED client

\* client.go:102
CloseClearAt(t) ==
    /\ pc[t].at = "close102"
    /\ client' = Some([client[1] EXCEPT !.debugFile = "nil"])
    /\ Goto(t, "closed")
    /\ UNCHANGED <<sink, racy>>

\* client.go:194
DoTest1At(t) ==
    /\ pc[t].at = "idle"
    /\ Goto(t, IF client[1].debugFile # "nil" THEN "do195" ELSE "do199")
    /\ UNCHANGED <<client, sink, racy>>

\* client.go:195-197
DoCapture1At(t) == pc[t].at = "do195" /\ Capture(t, "do199")

\* client.go:199: the transport returns, with a response or without
DoSendAt(t) ==
    /\ pc[t].at = "do199"
    /\ \E tr \in Transports : pc' = [pc EXCEPT ![t] = [at |-> "do200", resp |-> tr.resp]]
    /\ UNCHANGED <<client, sink, racy, token, built, done, last, code, verdict>>

\* client.go:200
DoTest2At(t) ==
    /\ pc[t].at = "do200"
    /\ Goto(t, IF client[1].debugFile # "nil" /\ pc[t].resp THEN "do201" ELSE "do205")
    /\ UNCHANGED <<client, sink, racy>>

\* client.go:201-203
DoCapture2At(t) == pc[t].at = "do201" /\ Capture(t, "do205")

\* client.go:205-227
DoReturnAt(t) ==
    /\ pc[t].at = "do205"
    /\ Goto(t, "returned")
    /\ UNCHANGED <<client, sink, racy>>

\* the goroutine makes its next call
AgainAt(t) ==
    /\ pc[t].at \in {"closed", "returned"}
    /\ pc' = [pc EXCEPT ![t] = [at |-> "idle", resp |-> FALSE]]
    /\ UNCHANGED <<client, sink, racy, token, built, done, last, code, verdict>>

CloseTest == \E t \in Threads : CloseTestAt(t)
CloseFile == \E t \in Threads : CloseFileAt(t)
CloseClear == \E t \in Threads : CloseClearAt(t)
DoTest1 == \E t \in Threads : DoTest1At(t)
DoCapture1 == \E t \in Threads : DoCapture1At(t)
DoSend == \E t \in Threads : DoSendAt(t)
DoTest2 == \E t \in Threads : DoTest2At(t)
DoCapture2 == \E t \in Threads : DoCapture2At(t)
DoReturn == \E t \in Threads : DoReturnAt(t)
Again == \E t \in Threads : AgainAt(t)

NextConc ==
    \/ CloseTest
    \/ CloseFile
    \/ CloseClear
    \/ DoTest1
    \/ DoCapture1
    \/ DoSend
    \/ DoTest2
    \/ DoCapture2
    \/ DoReturn
    \/ Again

SpecConc == InitConc /\ [][NextConc]_vars

----------------------------------------------------------------------------
(* Properties *)

SuccessCodes == {200, 201, 202, 204, 304}
MutatingMethods == {"POST", "PUT", "PATCH"}

\* C1: CheckResponse returns no error for the status codes 200, 201, 202, 204
\* and 304 and the one error ErrNonHttp20xResponse for every other code of
\* 100..599, whatever its class.
C1_CheckResponse ==
    verdict # "unchecked" =>
        /\ (code = 200 \/ code = 201 \/ code = 202 \/ code = 204 \/ code = 304)
              => verdict = NoErr
        /\ ~(code = 200 \/ code = 201 \/ code = 202 \/ code = 204 \/ code = 304)
              => verdict = ErrNonHttp20xResponse
C1_Witness == code = 304 /\ verdict = NoErr

\* C2: when the transport delivers a response with a status outside the success
\* set, Do returns the response with that status and ErrNonHttp20xResponse, v
\* receives nothing, and the body the caller finds in the response is the body
\* the transport delivered: unread and not closed.
C2_NonSuccessKeepsBody ==
    (done.called /\ done.transport.err = NoErr
                 /\ done.transport.StatusCode \notin SuccessCodes) =>
        /\ done.resp # Nil
        /\ done.resp[1].StatusCode = done.transport.StatusCode
        /\ done.err = ErrNonHttp20xResponse
        /\ done.out = <<>>
        /\ done.resp[1].Body = done.transport.Body

\* the positions of the options NewCDRRequest has to call: the non-nil ones, in
\* order, up to and including the first that fails
FailingAt(options) == {i \in 1..Len(options) : options[i].kind = "fail"}
FirstFailing(options) == CHOOSE i \in FailingAt(options) : \A j \in FailingAt(options) : i <= j
LastCalled(options) ==
    IF FailingAt(options) = {} THEN Len(options) ELSE FirstFailing(options)
CalledInOrder(options) ==
    SelectSeq([i \in 1..LastCalled(options) |-> i], LAMBDA i : options[i].kind # "nil")

\* C3: NewCDRRequest calls the options in the order given; when one fails no
\* later option is called, its error is returned as it is with no request, and
\* nothing is handed to the transport for that call.
C3_OptionsAbortOnFailure ==
    (built.called /\ ~built.panicked) =>
        /\ built.ran = CalledInOrder(built.options)
        /\ FailingAt(built.options) # {} =>
              /\ built.req = Nil
              /\ built.err = built.options[FirstFailing(built.options)].value
              /\ done.calls = 0
        /\ FailingAt(built.options) = {} => built.req # Nil /\ built.err = NoErr
C3_Witness ==
    /\ built.called
    /\ Len(built.options) = 2
    /\ built.options[1] = OptFailA
    /\ built.options[2] = OptAuth
    /\ built.ran = <<1>>
    /\ built.err = "errA"
    /\ built.req = Nil

\* C4: every request NewCDRRequest returns carries exactly the four standard
\* headers' values, whatever the options set: Accept "*/*", Authorization
\* "Bearer " and the token the provider returns at that call, API-Version and
\* User-Agent.
C4_StandardHeaders ==
    built.req # Nil =>
        /\ built.req[1].Header["Accept"] = <<"*/*">>
        /\ built.req[1].Header["Authorization"] = <<"Bearer " \o token>>
        /\ built.req[1].Header["Api-Version"] = <<APIVersion>>
        /\ built.req[1].Header["User-Agent"] = <<userAgent>>
C4_Witness ==
    /\ built.req # Nil
    /\ token = "t2"
    /\ \E i \in 1..Len(built.options) : built.options[i] = OptAuth
    /\ \E i \in 1..Len(built.options) : built.options[i] = OptAccept
    /\ built.req[1].Header["Authorization"] = <<"Bearer t2">>

\* C5: for POST, PUT and PATCH with a non-empty body and options that all
\* succeed, the request has the body's length as content length, the body as
\* body, and an empty query string, even when an option set one.
C5_MutatingBody ==
    (built.req # Nil /\ built.method \in MutatingMethods /\ built.bodyBytes # <<>>) =>
        /\ built.req[1].ContentLength = Len(built.bodyBytes)
        /\ built.req[1].Body = Some(Stream(built.bodyBytes, FALSE))
        /\ built.req[1].URL.RawQuery = <<>>
C5_Witness ==
    /\ built.req # Nil
    /\ built.method = "PATCH"
    /\ Len(built.bodyBytes) = 2
    /\ \E i \in 1..Len(built.options) : built.options[i] = OptQuery
    /\ built.req[1].ContentLength = 2
    /\ built.req[1].URL.RawQuery = <<>>

\* C6: for GET and DELETE the request carries no body and no content length,
\* whatever bodyBytes and the options are; a request has a body only when its
\* method is POST, PUT or PATCH.
C6_NoBodyUnlessMutating ==
    built.req # Nil =>
        /\ built.method \in {"GET", "DELETE"} =>
              built.req[1].Body = Nil /\ built.req[1].ContentLength = 0
        /\ built.req[1].Body # Nil => built.method \in MutatingMethods
C6_Witness ==
    /\ built.req # Nil
    /\ built.method = "DELETE"
    /\ Len(built.bodyBytes) = 2
    /\ built.req[1].Body = Nil

\* C7: the path of the client's base URL ends in "/", and every request built
\* is addressed to the base URL's scheme and host with the path
\* base path + root organization + "/" + relative path.
C7_BasePathEndsInSlash ==
    (client # Nil /\ client[1].fhirStoreURL # Nil) =>
        /\ HasSuffix(client[1].fhirStoreURL[1].Path, <<"/">>)
        /\ built.req # Nil =>
              /\ built.req[1].URL.Scheme = client[1].fhirStoreURL[1].Scheme
              /\ built.req[1].Host = client[1].fhirStoreURL[1].Host
              /\ built.req[1].URL.Opaque =
                    client[1].fhirStoreURL[1].Path \o client[1].RootOrgID
                        \o <<"/">> \o built.path

\* C8: NewCDRRequest on a client whose base URL is not set fails with a
\* configuration error: it returns no request and does not crash.
C8_UnsetBaseURLIsAnError ==
    (built.called /\ client # Nil /\ client[1].fhirStoreURL = Nil) =>
        /\ ~built.panicked
        /\ built.req = Nil
        /\ built.err # NoErr

\* C9: debug capture changes no outcome: construction returns the same error
\* whatever Config.DebugLog is, and Do succeeds or fails, returns a response
\* or none, with the same status, and calls the transport once with the same
\* request, as it does on a client without a debug file, whether or not the
\* file can be written.
C9_CaptureChangesNothing ==
    /\ \A config \in Configs :
          newClient(config).err = newClient([config EXCEPT !.DebugLog = ""]).err
    /\ done.called =>
          \E ref \in {Do([client[1] EXCEPT !.debugFile = "nil"], sink, built.req[1],
                         done.v, done.transport)} :
             /\ (done.err = NoErr) = (ref.err = NoErr)
             /\ (done.resp = Nil) = (ref.resp = Nil)
             /\ done.resp # Nil => done.resp[1].StatusCode = ref.resp[1].StatusCode
             /\ done.calls = 1
             /\ done.wire = ref.wire

\* C10: with goroutines sharing the Client, the debug file is closed by at most
\* one Close call, and no Do writes through Client.debugFile once the file was
\* released.
C10_ReleasedOnce == racy.closes <= 1 /\ ~racy.late

====
